---------------------------- MODULE Spec2Model ----------------------------
(***************************************************************************)
(* Task-tracking backend: four Lambda handlers (crear_tarea,               *)
(* actualizar_tarea, eliminar_tarea, listar_tareas) over one DynamoDB      *)
(* table "tareas" keyed by id.                                             *)
(*                                                                         *)
(* Encoding of the data.                                                   *)
(*  - A text value is a sequence of one-character strings; a character    *)
(*    TLA+ cannot write in a string is written by its code point           *)
(*    ("U+00A0").                                                          *)
(*  - A JSON scalar is a record [t, s]: t is the JSON type ("str", "num",  *)
(*    "null", "list") and s its text (for "num" the digits, for "list" the *)
(*    elements, so that Python truthiness can be computed).                *)
(*  - A JSON object (dict) and a DynamoDB item are functions from keys to  *)
(*    JSON scalars; the absent item (None) is the empty function.          *)
(*  - Time is counted in ticks, TicksPerSecond ticks to a second.  The     *)
(*    instant of second k is written <<Digits[k+1]>> in ISO-8601 text      *)
(*    without offset ("YYYY-MM-DDTHH:MM:SS"), <<Digits[k+1], "+">> with a  *)
(*    UTC offset ("...+00:00") and <<Digits[k+1], "Z">> with the Z suffix. *)
(*  - UuidText(k) stands for the canonical text of the k-th UUID,           *)
(*    MalformedId for a text uuid.UUID rejects and MissingId for an absent *)
(*    or empty id parameter.                                               *)
(* The table is assumed healthy: no store call raises.                     *)
(***************************************************************************)
EXTENDS Integers, Sequences, FiniteSets, TLC

(* ------------------------------ bounds --------------------------------- *)
MaxIds == 2          \* distinct UUIDs uuid4() can return
MaxReqs == 4         \* requests (handler invocations) in one behaviour
MaxClock == 2        \* last tick of the clock
TicksPerSecond == 2  \* resolution of the clock below one second
PaginaMax == 2       \* items one page of a scan holds (1 MB of data)
MaxTabla == 3        \* items of the largest table a list request scans

(* ------------------------- program constants --------------------------- *)
HTTP_200_OK == 200
HTTP_201_CREATED == 201
HTTP_400_BAD_REQUEST == 400
HTTP_404_NOT_FOUND == 404
HTTP_500_SERVER_ERROR == 500
MaxTitulo == 100
MaxDescripcion == 500

ESTADOS_VALIDOS == <<"PENDIENTE", "EN_PROGRESO", "COMPLETADA", "CANCELADA">>

(* ------------------------------- text ---------------------------------- *)
Digits == <<"0", "1", "2", "3", "4", "5", "6", "7", "8", "9">>

Range(f) == {f[i] : i \in DOMAIN f}

Rep(c, n) == [i \in 1..n |-> c]

SetMin(S) == CHOOSE x \in S : \A y \in S : x <= y

SetMax(S) == CHOOSE x \in S : \A y \in S : x >= y

\* The characters str.isspace() holds of.  Those TLA+ cannot write in a
\* string are written by their code point.
Whitespace ==
    {" ", "\t", "\n", "\r", "\f", "U+000B", "U+001C", "U+001D", "U+001E",
     "U+001F", "U+0085", "U+00A0", "U+1680", "U+2000", "U+2001", "U+2002",
     "U+2003", "U+2004", "U+2005", "U+2006", "U+2007", "U+2008", "U+2009",
     "U+200A", "U+2028", "U+2029", "U+202F", "U+205F", "U+3000"}

IsSpace(c) == c \in Whitespace

\* str.strip(): the text without its leading and trailing whitespace.
strip(s) ==
    LET keep == {i \in 1..Len(s) : ~IsSpace(s[i])}
        primero == CHOOSE i \in keep : \A j \in 1..(i - 1) : IsSpace(s[j])
        ultimo == CHOOSE i \in keep : \A j \in (i + 1)..Len(s) : IsSpace(s[j])
    IN  IF keep = {} THEN <<>> ELSE SubSeq(s, primero, ultimo)

(* --------------------------- JSON values ------------------------------- *)
Str(s) == [t |-> "str", s |-> s]

Num(s) == [t |-> "num", s |-> s]

Null == [t |-> "null", s |-> <<>>]

List(s) == [t |-> "list", s |-> s]

\* The value of a key the dict does not hold.
Ausente == [t |-> "absent", s |-> <<>>]

Word(w) == Str(<<w>>)

\* isinstance(v, str)
IsStr(v) == v.t = "str"

\* Python truth value of a JSON scalar: "", 0, None and [] are false.
Truthy(v) ==
    CASE v.t = "str" -> v.s # <<>>
      [] v.t = "num" -> v.s # <<"0">>
      [] v.t = "null" -> FALSE
      [] v.t = "list" -> v.s # <<>>

\* dict.get(k): the value, or None when the key is absent.
Get(d, k) == IF k \in DOMAIN d THEN d[k] ELSE Null

\* dict.get(k, default)
GetDefault(d, k, default) == IF k \in DOMAIN d THEN d[k] ELSE default

NoItem == <<>>

(* ------------------------------- time ---------------------------------- *)
DigitValue(c) == CHOOSE k \in 0..9 : Digits[k + 1] = c

IsDigit(c) == c \in Range(Digits)

\* datetime.utcnow(): the clock itself, below-second part included.
utcnow(now) == now

\* ahora_iso8601(): the clock cut to the second, as text with the Z suffix.
ahora_iso8601(now) == Str(<<Digits[(now \div TicksPerSecond) + 1], "Z">>)

\* datetime.fromisoformat(v): TypeError for a value that is no text,
\* ValueError for a text that is no ISO-8601 timestamp; otherwise the
\* instant, and whether it carries a UTC offset (aware) or not (naive).
fromisoformat(v) ==
    IF ~IsStr(v)
    THEN [exc |-> "TypeError", aware |-> FALSE, at |-> 0]
    ELSE IF Len(v.s) = 1 /\ IsDigit(v.s[1])
    THEN [exc |-> "none", aware |-> FALSE,
          at |-> DigitValue(v.s[1]) * TicksPerSecond]
    ELSE IF Len(v.s) = 2 /\ IsDigit(v.s[1]) /\ v.s[2] \in {"+", "Z"}
    THEN [exc |-> "none", aware |-> TRUE,
          at |-> DigitValue(v.s[1]) * TicksPerSecond]
    ELSE [exc |-> "ValueError", aware |-> FALSE, at |-> 0]

(* ------------------------------- ids ----------------------------------- *)
\* The canonical text of the k-th UUID.
UuidText(k) == <<"u", Digits[k + 1]>>

IdTexts == {UuidText(k) : k \in 1..MaxIds}

MissingId == <<>>

MalformedId == <<"x">>

\* es_uuid_valido(valor): uuid.UUID(valor) does not raise ValueError.
es_uuid_valido(valor) ==
    Len(valor) = 2 /\ valor[1] = "u" /\ IsDigit(valor[2])

\* uuid.uuid4(): an id never returned before.  The ids are interchangeable,
\* so the first unused one stands for any of them.
uuid4(usados) ==
    LET libres == {k \in 1..MaxIds : UuidText(k) \notin usados}
    IN  IF libres = {} THEN {} ELSE {UuidText(SetMin(libres))}

(* --------------------------- request bodies ---------------------------- *)
\* event["body"] after json.loads: "badjson" when the text is no JSON,
\* "dict" with the object d, "other" for any JSON value that is no object.
DictBody(d) == [kind |-> "dict", d |-> d]

BadJson == [kind |-> "badjson", d |-> <<>>]

OtherBody == [kind |-> "other", d |-> <<>>]

NoBody == [kind |-> "none", d |-> <<>>]

Raise(e) == [exc |-> e, datos |-> <<>>]

Return(d) == [exc |-> "none", datos |-> d]

(* ----------------------- crear_tarea: validation ----------------------- *)
\* The fecha rule of creation: a truthy fecha must parse and must not be
\* earlier than utcnow(); comparing an aware instant with the naive
\* utcnow() raises TypeError.  A falsy fecha becomes ahora_iso8601().
fecha_crear(fecha, now) ==
    IF Truthy(fecha)
    THEN LET fecha_obj == fromisoformat(fecha)
         IN  IF fecha_obj.exc # "none" THEN Raise(fecha_obj.exc)
             ELSE IF fecha_obj.aware THEN Raise("TypeError")
             ELSE IF fecha_obj.at < utcnow(now) THEN Raise("ValueError")
             ELSE Return(fecha)
    ELSE Return(ahora_iso8601(now))

validar_datos_tarea(body, now) ==
    IF body.kind # "dict" THEN Raise("ValueError")
    ELSE
    LET datos == body.d
        titulo == Get(datos, "titulo")
        descripcion == Get(datos, "descripcion")
        fecha == fecha_crear(Get(datos, "fecha"), now)
        estado == GetDefault(datos, "estado", Word("PENDIENTE"))
    IN  IF ~Truthy(titulo) \/ ~IsStr(titulo) THEN Raise("ValueError")
        ELSE IF Len(titulo.s) > MaxTitulo THEN Raise("ValueError")
        ELSE IF descripcion # Null /\ ~IsStr(descripcion)
        THEN Raise("ValueError")
        ELSE IF descripcion # Null /\ Len(descripcion.s) > MaxDescripcion
        THEN Raise("ValueError")
        ELSE IF fecha.exc # "none" THEN Raise(fecha.exc)
        ELSE IF estado \notin {Word(e) : e \in Range(ESTADOS_VALIDOS)}
        THEN Raise("ValueError")
        ELSE Return([k \in {"titulo", "descripcion", "fecha", "estado"} |->
                CASE k = "titulo" -> Str(strip(titulo.s))
                  [] k = "descripcion" ->
                        IF Truthy(descripcion) THEN Str(strip(descripcion.s))
                        ELSE Str(<<>>)
                  [] k = "fecha" -> fecha.datos
                  [] k = "estado" -> estado])

(* -------------------- actualizar_tarea: validation --------------------- *)
campos_permitidos == {"titulo", "descripcion", "fecha", "estado"}

\* Mutation of campos_a_escribir: descripcion is normalised and written
\* whether or not the payload carries it, as creation does.
campos_con_descripcion(datos) ==
    {k \in campos_permitidos : k \in DOMAIN datos} \cup {"descripcion"}

\* The keys datos_validados receives: one per "if '<campo>' in datos".
campos_a_escribir(datos) == {k \in campos_permitidos : k \in DOMAIN datos}

\* The fecha rule of update: a truthy fecha must parse, nothing more.
fecha_actualizar(fecha, now) ==
    IF Truthy(fecha)
    THEN LET fecha_obj == fromisoformat(fecha)
         IN  IF fecha_obj.exc # "none" THEN Raise(fecha_obj.exc)
             ELSE Return(fecha)
    ELSE Return(ahora_iso8601(now))

validar_datos_actualizacion(body, now) ==
    IF body.kind # "dict" THEN Raise("ValueError")
    ELSE
    LET datos == body.d
        campos_validos == DOMAIN datos \cap campos_permitidos
        titulo == Get(datos, "titulo")
        descripcion == Get(datos, "descripcion")
        fecha == fecha_actualizar(Get(datos, "fecha"), now)
        estado == Get(datos, "estado")
    IN  IF campos_validos = {} THEN Raise("ValueError")
        ELSE IF "titulo" \in DOMAIN datos
                /\ (~Truthy(titulo) \/ ~IsStr(titulo))
        THEN Raise("ValueError")
        ELSE IF "titulo" \in DOMAIN datos /\ Len(titulo.s) > MaxTitulo
        THEN Raise("ValueError")
        ELSE IF "descripcion" \in DOMAIN datos /\ descripcion # Null
                /\ ~IsStr(descripcion)
        THEN Raise("ValueError")
        ELSE IF "descripcion" \in DOMAIN datos /\ descripcion # Null
                /\ Len(descripcion.s) > MaxDescripcion
        THEN Raise("ValueError")
        ELSE IF "fecha" \in DOMAIN datos /\ fecha.exc # "none"
        THEN Raise(fecha.exc)
        ELSE IF "estado" \in DOMAIN datos
                /\ estado \notin {Word(e) : e \in Range(ESTADOS_VALIDOS)}
        THEN Raise("ValueError")
        ELSE Return([k \in campos_a_escribir(datos) |->
                CASE k = "titulo" -> Str(strip(titulo.s))
                  [] k = "descripcion" ->
                        IF descripcion # Null THEN Str(strip(descripcion.s))
                        ELSE Str(<<>>)
                  [] k = "fecha" -> fecha.datos
                  [] k = "estado" -> estado])

(* ------------------------- the DynamoDB table -------------------------- *)
\* Mutation of get_item: the key attribute is misnamed, nothing is found.
get_item_clave_erronea(tabla, id) == NoItem

\* Mutation of get_item: the whole response is returned, not its 'Item'.
get_item_respuesta(tabla, id) ==
    IF id \in DOMAIN tabla /\ tabla[id] # NoItem THEN tabla[id]
    ELSE "ResponseMetadata" :> Null

\* Table.get_item(Key={'id': id}).get('Item')
get_item(tabla, id) == IF id \in DOMAIN tabla THEN tabla[id] ELSE NoItem

\* Table.put_item(Item=item): the item replaces whatever the key held.
put_item(tabla, item) == [tabla EXCEPT ![item["id"].s] = item]

\* Table.delete_item(Key={'id': id}): no error when the key holds nothing.
delete_item(tabla, id) == [tabla EXCEPT ![id] = NoItem]

\* Mutation of item_actualizado: the item is rewritten from the SET clauses
\* alone, as put_item would.
item_reemplazado(anterior, id, valores) ==
    [k \in DOMAIN valores \cup {"id"} |->
        IF k \in DOMAIN valores THEN valores[k] ELSE Str(id)]

\* A SET that leaves the attributes the item already has as they are
\* (if_not_exists on every attribute).
item_sin_pisar(anterior, id, valores) ==
    [k \in DOMAIN anterior \cup DOMAIN valores \cup {"id"} |->
        IF k \in DOMAIN anterior THEN anterior[k]
        ELSE IF k \in DOMAIN valores THEN valores[k]
        ELSE Str(id)]

\* The item update_item leaves under the key: the SET clauses written over
\* the item the key holds; when the key holds nothing, a new item made of
\* the key and the SET clauses (update_item carries no ConditionExpression).
item_actualizado(anterior, id, valores) ==
    [k \in DOMAIN anterior \cup DOMAIN valores \cup {"id"} |->
        IF k \in DOMAIN valores THEN valores[k]
        ELSE IF k = "id" THEN Str(id)
        ELSE anterior[k]]

\* Table.update_item(Key, UpdateExpression="SET ...", ReturnValues='ALL_NEW')
update_item(tabla, id, valores) ==
    [tabla EXCEPT ![id] = item_actualizado(tabla[id], id, valores)]

\* The items the table holds.
Items(tabla) == {tabla[id] : id \in {x \in DOMAIN tabla : tabla[x] # NoItem}}

(* ---------------------------- persistence ------------------------------ *)
\* crear_tarea_en_db: the item built from the validated data.
item_nuevo(id_tarea, datos, now) ==
    [k \in {"id", "titulo", "descripcion", "fecha", "estado",
            "creado_en", "actualizado_en"} |->
        CASE k = "id" -> Str(id_tarea)
          [] k \in {"creado_en", "actualizado_en"} -> ahora_iso8601(now)
          [] OTHER -> datos[k]]

\* A SET expression that carries actualizado_en alone.
expression_solo_marca(datos_actualizados, now) ==
    [k \in {"actualizado_en"} |-> ahora_iso8601(now)]

\* actualizar_tarea_en_db: the values of the SET expression, one per
\* validated field plus actualizado_en.
expression_attribute_values(datos_actualizados, now) ==
    [k \in DOMAIN datos_actualizados \cup {"actualizado_en"} |->
        IF k = "actualizado_en" THEN ahora_iso8601(now)
        ELSE datos_actualizados[k]]

(* ------------------------------ responses ------------------------------ *)
Respuesta(status, error, tarea, tareas) ==
    [status |-> status, error |-> error, tarea |-> tarea, tareas |-> tareas]

NoResp == Respuesta(0, "", NoItem, {})

ErrorResp(status, error) == Respuesta(status, error, NoItem, {})

NoReq == [op |-> "none", id |-> MissingId, body |-> NoBody,
          estado |-> <<>>, limite |-> Ausente]

(* ------------------------------- state --------------------------------- *)
VARIABLES
    store,   \* the table "tareas": id text -> item, NoItem where none
    issued,  \* the ids uuid4() has returned
    clock,   \* the current time, in ticks
    n,       \* the number of requests received so far
    req,     \* req[i]: the event of the i-th request
    pc,      \* pc[i]: where the handler of the i-th request stands
    expr,    \* expr[i]: what the handler of request i holds for its store
             \* call: the validated data, then (update) the
             \* ExpressionAttributeValues
    resp     \* resp[i]: the response of the i-th request

vars == <<store, issued, clock, n, req, pc, expr, resp>>

Reqs == 1..MaxReqs

Init ==
    /\ store = [id \in IdTexts |-> NoItem]
    /\ issued = {}
    /\ clock = 0
    /\ n = 0
    /\ req = [i \in Reqs |-> NoReq]
    /\ pc = [i \in Reqs |-> "idle"]
    /\ expr = [i \in Reqs |-> <<>>]
    /\ resp = [i \in Reqs |-> NoResp]

\* The request n + 1 arrives.
Recibir(r) ==
    /\ n' = n + 1
    /\ req' = [req EXCEPT ![n + 1] = r]

\* The handler of request i returns.
Responder(i, r) ==
    /\ pc' = [pc EXCEPT ![i] = "done"]
    /\ resp' = [resp EXCEPT ![i] = r]

\* Time passes.
Tick ==
    /\ clock < MaxClock
    /\ clock' = clock + 1
    /\ UNCHANGED <<store, issued, n, req, pc, expr, resp>>

(* ----------------------- crear_tarea.lambda_handler -------------------- *)
\* json.loads and validar_datos_tarea, which reads the clock for fecha.
\* ValueError is answered 400, any other exception 500.
CrearTarea(body) ==
    LET i == n + 1
        v == IF body.kind = "badjson" THEN Raise("ValueError")
             ELSE validar_datos_tarea(body, clock)
    IN  /\ Recibir([NoReq EXCEPT !.op = "crear", !.body = body])
        /\ IF v.exc = "ValueError"
           THEN /\ Responder(i, ErrorResp(HTTP_400_BAD_REQUEST,
                                          "Datos invalidos"))
                /\ UNCHANGED expr
           ELSE IF v.exc # "none"
           THEN /\ Responder(i, ErrorResp(HTTP_500_SERVER_ERROR,
                                          "Error interno del servidor"))
                /\ UNCHANGED expr
           ELSE /\ expr' = [expr EXCEPT ![i] = v.datos]
                /\ pc' = [pc EXCEPT ![i] = "validated"]
                /\ UNCHANGED resp
        /\ UNCHANGED <<store, issued, clock>>

\* crear_tarea_en_db: uuid4 and the clock read for creado_en and
\* actualizado_en give the item.
CrearPreparar(i) ==
    /\ req[i].op = "crear"
    /\ pc[i] = "validated"
    /\ \E id_tarea \in uuid4(issued) :
            /\ expr' = [expr EXCEPT ![i] = item_nuevo(id_tarea, expr[i], clock)]
            /\ issued' = issued \cup {id_tarea}
    /\ pc' = [pc EXCEPT ![i] = "prepared"]
    /\ UNCHANGED <<store, clock, n, req, resp>>

\* put_item reaches the table; the response carries the item.
CrearEscribir(i) ==
    /\ req[i].op = "crear"
    /\ pc[i] = "prepared"
    /\ store' = put_item(store, expr[i])
    /\ Responder(i, Respuesta(HTTP_201_CREATED, "", expr[i], {}))
    /\ UNCHANGED <<issued, clock, n, req, expr>>

(* --------------------- actualizar_tarea.lambda_handler ----------------- *)
\* The id checks and obtener_tarea_existente (get_item).
ActualizarInicio(id, body) ==
    LET i == n + 1
    IN  /\ Recibir([NoReq EXCEPT !.op = "actualizar", !.id = id,
                                 !.body = body])
        /\ IF id = MissingId
           THEN Responder(i, ErrorResp(HTTP_400_BAD_REQUEST,
                                       "Parametro faltante"))
           ELSE IF ~es_uuid_valido(id)
           THEN Responder(i, ErrorResp(HTTP_400_BAD_REQUEST,
                                       "Parametro invalido"))
           ELSE IF get_item(store, id) = NoItem
           THEN Responder(i, ErrorResp(HTTP_404_NOT_FOUND,
                                       "Tarea no encontrada"))
           ELSE /\ pc' = [pc EXCEPT ![i] = "checked"]
                /\ UNCHANGED resp
        /\ UNCHANGED <<store, issued, clock, expr>>

\* json.loads and validar_datos_actualizacion, which reads the clock for
\* the fecha of a payload whose fecha is empty.
ActualizarValidar(i) ==
    LET body == req[i].body
        v == validar_datos_actualizacion(body, clock)
    IN  /\ req[i].op = "actualizar"
        /\ pc[i] = "checked"
        /\ IF body.kind = "badjson"
           THEN /\ Responder(i, ErrorResp(HTTP_400_BAD_REQUEST,
                                          "Formato invalido"))
                /\ UNCHANGED expr
           ELSE IF v.exc = "ValueError"
           THEN /\ Responder(i, ErrorResp(HTTP_400_BAD_REQUEST,
                                          "Datos invalidos"))
                /\ UNCHANGED expr
           ELSE IF v.exc # "none"
           THEN /\ Responder(i, ErrorResp(HTTP_500_SERVER_ERROR,
                                          "Error interno del servidor"))
                /\ UNCHANGED expr
           ELSE /\ expr' = [expr EXCEPT ![i] = v.datos]
                /\ pc' = [pc EXCEPT ![i] = "validated"]
                /\ UNCHANGED resp
        /\ UNCHANGED <<store, issued, clock, n, req>>

\* The SET expression of actualizar_tarea_en_db, which reads the clock for
\* actualizado_en.
ActualizarPreparar(i) ==
    /\ req[i].op = "actualizar"
    /\ pc[i] = "validated"
    /\ expr' = [expr EXCEPT ![i] =
                    expression_attribute_values(expr[i], clock)]
    /\ pc' = [pc EXCEPT ![i] = "prepared"]
    /\ UNCHANGED <<store, issued, clock, n, req, resp>>

\* update_item reaches the table; the response carries its ALL_NEW item.
ActualizarEscribir(i) ==
    /\ req[i].op = "actualizar"
    /\ pc[i] = "prepared"
    /\ store' = update_item(store, req[i].id, expr[i])
    /\ Responder(i, Respuesta(HTTP_200_OK, "", store'[req[i].id], {}))
    /\ UNCHANGED <<issued, clock, n, req, expr>>

(* ---------------------- eliminar_tarea.lambda_handler ------------------ *)
\* The id checks and obtener_tarea_existente (get_item).
EliminarInicio(id) ==
    LET i == n + 1
    IN  /\ Recibir([NoReq EXCEPT !.op = "eliminar", !.id = id])
        /\ IF id = MissingId
           THEN Responder(i, ErrorResp(HTTP_400_BAD_REQUEST,
                                       "Parametro faltante"))
           ELSE IF ~es_uuid_valido(id)
           THEN Responder(i, ErrorResp(HTTP_400_BAD_REQUEST,
                                       "Parametro invalido"))
           ELSE IF get_item(store, id) = NoItem
           THEN Responder(i, ErrorResp(HTTP_404_NOT_FOUND,
                                       "Tarea no encontrada"))
           ELSE /\ pc' = [pc EXCEPT ![i] = "checked"]
                /\ UNCHANGED resp
        /\ UNCHANGED <<store, issued, clock, expr>>

\* eliminar_tarea_en_db: delete_item reaches the table.
EliminarEscribir(i) ==
    /\ req[i].op = "eliminar"
    /\ pc[i] = "checked"
    /\ store' = delete_item(store, req[i].id)
    /\ Responder(i, Respuesta(HTTP_200_OK, "", NoItem, {}))
    /\ UNCHANGED <<issued, clock, n, req, expr>>

(* ----------------------- listar_tareas.lambda_handler ------------------ *)
\* The decimal digits of Unicode (category Nd), which int() accepts: each
\* block holds its digits 0 to 9 in order.
BloquesDeDigitos ==
    << <<"0", "1", "2", "3", "4", "5", "6", "7", "8", "9">>,
       <<"U+0660", "U+0661", "U+0662", "U+0663", "U+0664",
         "U+0665", "U+0666", "U+0667", "U+0668", "U+0669">>,
       <<"U+06F0", "U+06F1", "U+06F2", "U+06F3", "U+06F4",
         "U+06F5", "U+06F6", "U+06F7", "U+06F8", "U+06F9">>,
       <<"U+07C0", "U+07C1", "U+07C2", "U+07C3", "U+07C4",
         "U+07C5", "U+07C6", "U+07C7", "U+07C8", "U+07C9">>,
       <<"U+0966", "U+0967", "U+0968", "U+0969", "U+096A",
         "U+096B", "U+096C", "U+096D", "U+096E", "U+096F">>,
       <<"U+09E6", "U+09E7", "U+09E8", "U+09E9", "U+09EA",
         "U+09EB", "U+09EC", "U+09ED", "U+09EE", "U+09EF">>,
       <<"U+0A66", "U+0A67", "U+0A68", "U+0A69", "U+0A6A",
         "U+0A6B", "U+0A6C", "U+0A6D", "U+0A6E", "U+0A6F">>,
       <<"U+0AE6", "U+0AE7", "U+0AE8", "U+0AE9", "U+0AEA",
         "U+0AEB", "U+0AEC", "U+0AED", "U+0AEE", "U+0AEF">>,
       <<"U+0B66", "U+0B67", "U+0B68", "U+0B69", "U+0B6A",
         "U+0B6B", "U+0B6C", "U+0B6D", "U+0B6E", "U+0B6F">>,
       <<"U+0BE6", "U+0BE7", "U+0BE8", "U+0BE9", "U+0BEA",
         "U+0BEB", "U+0BEC", "U+0BED", "U+0BEE", "U+0BEF">>,
       <<"U+0C66", "U+0C67", "U+0C68", "U+0C69", "U+0C6A",
         "U+0C6B", "U+0C6C", "U+0C6D", "U+0C6E", "U+0C6F">>,
       <<"U+0CE6", "U+0CE7", "U+0CE8", "U+0CE9", "U+0CEA",
         "U+0CEB", "U+0CEC", "U+0CED", "U+0CEE", "U+0CEF">>,
       <<"U+0D66", "U+0D67", "U+0D68", "U+0D69", "U+0D6A",
         "U+0D6B", "U+0D6C", "U+0D6D", "U+0D6E", "U+0D6F">>,
       <<"U+0DE6", "U+0DE7", "U+0DE8", "U+0DE9", "U+0DEA",
         "U+0DEB", "U+0DEC", "U+0DED", "U+0DEE", "U+0DEF">>,
       <<"U+0E50", "U+0E51", "U+0E52", "U+0E53", "U+0E54",
         "U+0E55", "U+0E56", "U+0E57", "U+0E58", "U+0E59">>,
       <<"U+0ED0", "U+0ED1", "U+0ED2", "U+0ED3", "U+0ED4",
         "U+0ED5", "U+0ED6", "U+0ED7", "U+0ED8", "U+0ED9">>,
       <<"U+0F20", "U+0F21", "U+0F22", "U+0F23", "U+0F24",
         "U+0F25", "U+0F26", "U+0F27", "U+0F28", "U+0F29">>,
       <<"U+1040", "U+1041", "U+1042", "U+1043", "U+1044",
         "U+1045", "U+1046", "U+1047", "U+1048", "U+1049">>,
       <<"U+1090", "U+1091", "U+1092", "U+1093", "U+1094",
         "U+1095", "U+1096", "U+1097", "U+1098", "U+1099">>,
       <<"U+17E0", "U+17E1", "U+17E2", "U+17E3", "U+17E4",
         "U+17E5", "U+17E6", "U+17E7", "U+17E8", "U+17E9">>,
       <<"U+1810", "U+1811", "U+1812", "U+1813", "U+1814",
         "U+1815", "U+1816", "U+1817", "U+1818", "U+1819">>,
       <<"U+1946", "U+1947", "U+1948", "U+1949", "U+194A",
         "U+194B", "U+194C", "U+194D", "U+194E", "U+194F">>,
       <<"U+19D0", "U+19D1", "U+19D2", "U+19D3", "U+19D4",
         "U+19D5", "U+19D6", "U+19D7", "U+19D8", "U+19D9">>,
       <<"U+1A80", "U+1A81", "U+1A82", "U+1A83", "U+1A84",
         "U+1A85", "U+1A86", "U+1A87", "U+1A88", "U+1A89">>,
       <<"U+1A90", "U+1A91", "U+1A92", "U+1A93", "U+1A94",
         "U+1A95", "U+1A96", "U+1A97", "U+1A98", "U+1A99">>,
       <<"U+1B50", "U+1B51", "U+1B52", "U+1B53", "U+1B54",
         "U+1B55", "U+1B56", "U+1B57", "U+1B58", "U+1B59">>,
       <<"U+1BB0", "U+1BB1", "U+1BB2", "U+1BB3", "U+1BB4",
         "U+1BB5", "U+1BB6", "U+1BB7", "U+1BB8", "U+1BB9">>,
       <<"U+1C40", "U+1C41", "U+1C42", "U+1C43", "U+1C44",
         "U+1C45", "U+1C46", "U+1C47", "U+1C48", "U+1C49">>,
       <<"U+1C50", "U+1C51", "U+1C52", "U+1C53", "U+1C54",
         "U+1C55", "U+1C56", "U+1C57", "U+1C58", "U+1C59">>,
       <<"U+A620", "U+A621", "U+A622", "U+A623", "U+A624",
         "U+A625", "U+A626", "U+A627", "U+A628", "U+A629">>,
       <<"U+A8D0", "U+A8D1", "U+A8D2", "U+A8D3", "U+A8D4",
         "U+A8D5", "U+A8D6", "U+A8D7", "U+A8D8", "U+A8D9">>,
       <<"U+A900", "U+A901", "U+A902", "U+A903", "U+A904",
         "U+A905", "U+A906", "U+A907", "U+A908", "U+A909">>,
       <<"U+A9D0", "U+A9D1", "U+A9D2", "U+A9D3", "U+A9D4",
         "U+A9D5", "U+A9D6", "U+A9D7", "U+A9D8", "U+A9D9">>,
       <<"U+A9F0", "U+A9F1", "U+A9F2", "U+A9F3", "U+A9F4",
         "U+A9F5", "U+A9F6", "U+A9F7", "U+A9F8", "U+A9F9">>,
       <<"U+AA50", "U+AA51", "U+AA52", "U+AA53", "U+AA54",
         "U+AA55", "U+AA56", "U+AA57", "U+AA58", "U+AA59">>,
       <<"U+ABF0", "U+ABF1", "U+ABF2", "U+ABF3", "U+ABF4",
         "U+ABF5", "U+ABF6", "U+ABF7", "U+ABF8", "U+ABF9">>,
       <<"U+FF10", "U+FF11", "U+FF12", "U+FF13", "U+FF14",
         "U+FF15", "U+FF16", "U+FF17", "U+FF18", "U+FF19">>,
       <<"U+104A0", "U+104A1", "U+104A2", "U+104A3", "U+104A4",
         "U+104A5", "U+104A6", "U+104A7", "U+104A8", "U+104A9">>,
       <<"U+10D30", "U+10D31", "U+10D32", "U+10D33", "U+10D34",
         "U+10D35", "U+10D36", "U+10D37", "U+10D38", "U+10D39">>,
       <<"U+11066", "U+11067", "U+11068", "U+11069", "U+1106A",
         "U+1106B", "U+1106C", "U+1106D", "U+1106E", "U+1106F">>,
       <<"U+110F0", "U+110F1", "U+110F2", "U+110F3", "U+110F4",
         "U+110F5", "U+110F6", "U+110F7", "U+110F8", "U+110F9">>,
       <<"U+11136", "U+11137", "U+11138", "U+11139", "U+1113A",
         "U+1113B", "U+1113C", "U+1113D", "U+1113E", "U+1113F">>,
       <<"U+111D0", "U+111D1", "U+111D2", "U+111D3", "U+111D4",
         "U+111D5", "U+111D6", "U+111D7", "U+111D8", "U+111D9">>,
       <<"U+112F0", "U+112F1", "U+112F2", "U+112F3", "U+112F4",
         "U+112F5", "U+112F6", "U+112F7", "U+112F8", "U+112F9">>,
       <<"U+11450", "U+11451", "U+11452", "U+11453", "U+11454",
         "U+11455", "U+11456", "U+11457", "U+11458", "U+11459">>,
       <<"U+114D0", "U+114D1", "U+114D2", "U+114D3", "U+114D4",
         "U+114D5", "U+114D6", "U+114D7", "U+114D8", "U+114D9">>,
       <<"U+11650", "U+11651", "U+11652", "U+11653", "U+11654",
         "U+11655", "U+11656", "U+11657", "U+11658", "U+11659">>,
       <<"U+116C0", "U+116C1", "U+116C2", "U+116C3", "U+116C4",
         "U+116C5", "U+116C6", "U+116C7", "U+116C8", "U+116C9">>,
       <<"U+11730", "U+11731", "U+11732", "U+11733", "U+11734",
         "U+11735", "U+11736", "U+11737", "U+11738", "U+11739">>,
       <<"U+118E0", "U+118E1", "U+118E2", "U+118E3", "U+118E4",
         "U+118E5", "U+118E6", "U+118E7", "U+118E8", "U+118E9">>,
       <<"U+11950", "U+11951", "U+11952", "U+11953", "U+11954",
         "U+11955", "U+11956", "U+11957", "U+11958", "U+11959">>,
       <<"U+11C50", "U+11C51", "U+11C52", "U+11C53", "U+11C54",
         "U+11C55", "U+11C56", "U+11C57", "U+11C58", "U+11C59">>,
       <<"U+11D50", "U+11D51", "U+11D52", "U+11D53", "U+11D54",
         "U+11D55", "U+11D56", "U+11D57", "U+11D58", "U+11D59">>,
       <<"U+11DA0", "U+11DA1", "U+11DA2", "U+11DA3", "U+11DA4",
         "U+11DA5", "U+11DA6", "U+11DA7", "U+11DA8", "U+11DA9">>,
       <<"U+16A60", "U+16A61", "U+16A62", "U+16A63", "U+16A64",
         "U+16A65", "U+16A66", "U+16A67", "U+16A68", "U+16A69">>,
       <<"U+16AC0", "U+16AC1", "U+16AC2", "U+16AC3", "U+16AC4",
         "U+16AC5", "U+16AC6", "U+16AC7", "U+16AC8", "U+16AC9">>,
       <<"U+16B50", "U+16B51", "U+16B52", "U+16B53", "U+16B54",
         "U+16B55", "U+16B56", "U+16B57", "U+16B58", "U+16B59">>,
       <<"U+1D7CE", "U+1D7CF", "U+1D7D0", "U+1D7D1", "U+1D7D2",
         "U+1D7D3", "U+1D7D4", "U+1D7D5", "U+1D7D6", "U+1D7D7">>,
       <<"U+1D7D8", "U+1D7D9", "U+1D7DA", "U+1D7DB", "U+1D7DC",
         "U+1D7DD", "U+1D7DE", "U+1D7DF", "U+1D7E0", "U+1D7E1">>,
       <<"U+1D7E2", "U+1D7E3", "U+1D7E4", "U+1D7E5", "U+1D7E6",
         "U+1D7E7", "U+1D7E8", "U+1D7E9", "U+1D7EA", "U+1D7EB">>,
       <<"U+1D7EC", "U+1D7ED", "U+1D7EE", "U+1D7EF", "U+1D7F0",
         "U+1D7F1", "U+1D7F2", "U+1D7F3", "U+1D7F4", "U+1D7F5">>,
       <<"U+1D7F6", "U+1D7F7", "U+1D7F8", "U+1D7F9", "U+1D7FA",
         "U+1D7FB", "U+1D7FC", "U+1D7FD", "U+1D7FE", "U+1D7FF">>,
       <<"U+1E140", "U+1E141", "U+1E142", "U+1E143", "U+1E144",
         "U+1E145", "U+1E146", "U+1E147", "U+1E148", "U+1E149">>,
       <<"U+1E2F0", "U+1E2F1", "U+1E2F2", "U+1E2F3", "U+1E2F4",
         "U+1E2F5", "U+1E2F6", "U+1E2F7", "U+1E2F8", "U+1E2F9">>,
       <<"U+1E950", "U+1E951", "U+1E952", "U+1E953", "U+1E954",
         "U+1E955", "U+1E956", "U+1E957", "U+1E958", "U+1E959">>,
       <<"U+1FBF0", "U+1FBF1", "U+1FBF2", "U+1FBF3", "U+1FBF4",
         "U+1FBF5", "U+1FBF6", "U+1FBF7", "U+1FBF8", "U+1FBF9">> >>

DigitosDecimales ==
    UNION {Range(BloquesDeDigitos[b]) : b \in DOMAIN BloquesDeDigitos}

EsDigitoDecimal(c) == c \in DigitosDecimales

ValoresDeDigitos ==
    [c \in DigitosDecimales |->
        CHOOSE k \in 0..9 :
            \E b \in DOMAIN BloquesDeDigitos : BloquesDeDigitos[b][k + 1] = c]

ValorDigito(c) == ValoresDeDigitos[c]

\* sys.get_int_max_str_digits(): int() raises ValueError for a text of
\* more digits.
MaxDigitosInt == 4300

\* The text is a decimal numeral: digits, with single underscores allowed
\* between two digits, and no more than MaxDigitosInt digits.
EsNumeral(s) ==
    /\ Len(s) >= 1
    /\ \A k \in 1..Len(s) : EsDigitoDecimal(s[k]) \/ s[k] = "_"
    /\ EsDigitoDecimal(s[1]) /\ EsDigitoDecimal(s[Len(s)])
    /\ \A k \in 1..(Len(s) - 1) : ~(s[k] = "_" /\ s[k + 1] = "_")
    /\ Cardinality({k \in 1..Len(s) : s[k] # "_"}) <= MaxDigitosInt

\* The number the digits and underscores of s name.
RECURSIVE ValorCifras(_)
ValorCifras(s) ==
    IF s = <<>> THEN 0
    ELSE LET resto == SubSeq(s, 1, Len(s) - 1)
             c == s[Len(s)]
         IN  IF c = "_" THEN ValorCifras(resto)
             ELSE 10 * ValorCifras(resto) + ValorDigito(c)

\* The number a numeral names: that of its digits from the first one that
\* is not a zero.
ValorNumeral(s) ==
    LET significativas ==
            {k \in 1..Len(s) : s[k] # "_" /\ ValorDigito(s[k]) # 0}
    IN  IF significativas = {} THEN 0
        ELSE ValorCifras(SubSeq(s, SetMin(significativas), Len(s)))

\* The whitespace int() drops around a numeral: that of str.isspace()
\* without the four separators U+001C to U+001F.
EspaciosDeInt == Whitespace \ {"U+001C", "U+001D", "U+001E", "U+001F"}

\* The text without the whitespace int() drops at its ends.
recortar_int(s) ==
    LET keep == {k \in 1..Len(s) : s[k] \notin EspaciosDeInt}
        primero ==
            CHOOSE k \in keep : \A j \in 1..(k - 1) : s[j] \in EspaciosDeInt
        ultimo ==
            CHOOSE k \in keep :
                \A j \in (k + 1)..Len(s) : s[j] \in EspaciosDeInt
    IN  IF keep = {} THEN <<>> ELSE SubSeq(s, primero, ultimo)

\* int(v).  Of a text: surrounding whitespace is dropped, one sign is
\* allowed, and any text that is no numeral raises ValueError.  Of a
\* number: the number.  Of None or a list: TypeError.
int(v) ==
    LET s == recortar_int(v.s)
        signo == Len(s) >= 1 /\ s[1] \in {"+", "-"}
        cifras == IF signo THEN Tail(s) ELSE s
    IN  IF v.t = "num" THEN Return(ValorNumeral(v.s))
        ELSE IF v.t # "str" THEN Raise("TypeError")
        ELSE IF ~EsNumeral(cifras) THEN Raise("ValueError")
        ELSE IF signo /\ s[1] = "-" THEN Return(0 - ValorNumeral(cifras))
        ELSE Return(ValorNumeral(cifras))

\* The inner try of the limite parameter answers 400: int() raised
\* ValueError, or the number is not positive.
limite_invalido(limite) ==
    /\ limite # Ausente
    /\ \/ int(limite).exc = "ValueError"
       \/ int(limite).exc = "none" /\ int(limite).datos <= 0

\* int() raised TypeError, which only the outer except catches.
limite_no_convertible(limite) ==
    limite # Ausente /\ int(limite).exc = "TypeError"

\* No cap on the items of a page: the table is smaller than one page.
SinTope == 0

\* The sets of items one scan call can have read.  The call reads items in
\* the table's order (the caller does not choose it) and stops at Limit
\* items, at the end of the table, or when its page is full (capacidad
\* items; 1 MB of data); the handler issues one call and never follows
\* LastEvaluatedKey.
scan_leidos(tabla, limite, capacidad) ==
    LET topes == {Cardinality(Items(tabla))}
                    \cup (IF limite > 0 THEN {limite} ELSE {})
                    \cup (IF capacidad > 0 THEN {capacidad} ELSE {})
    IN  {E \in SUBSET Items(tabla) : Cardinality(E) = SetMin(topes)}

\* The page capacities of the table: PaginaMax items, or none.
Paginas == {PaginaMax, SinTope}

\* obtener_tareas_por_estado: FilterExpression applies to the items read.
filtrar_estado(leidos, estado) ==
    {t \in leidos : "estado" \in DOMAIN t /\ t["estado"] = Word(estado)}

\* The branch of the handler's if / elif / else: a present id_tarea first,
\* then a present estado, then the unfiltered listing.
rama_estado_primero(id_tarea, estado) ==
    IF estado # <<>> THEN "estado"
    ELSE IF id_tarea # MissingId THEN "id"
    ELSE "todas"

rama(id_tarea, estado) ==
    IF id_tarea # MissingId THEN "id"
    ELSE IF estado # <<>> THEN "estado"
    ELSE "todas"

\* limite is parsed and checked first, whatever the other parameters are.
ListarTareas(id_tarea, estado, limite) ==
    LET i == n + 1
        lim == IF limite = Ausente THEN 0 ELSE int(limite).datos
    IN  /\ Recibir([NoReq EXCEPT !.op = "listar", !.id = id_tarea,
                                 !.estado = estado, !.limite = limite])
        /\ IF limite_invalido(limite)
           THEN Responder(i, ErrorResp(HTTP_400_BAD_REQUEST,
                                       "Parametro invalido"))
           ELSE IF limite_no_convertible(limite)
           THEN Responder(i, ErrorResp(HTTP_500_SERVER_ERROR,
                                       "Error interno del servidor"))
           ELSE IF rama(id_tarea, estado) = "id"
           THEN IF ~es_uuid_valido(id_tarea)
                THEN Responder(i, ErrorResp(HTTP_400_BAD_REQUEST,
                                            "Parametro invalido"))
                ELSE IF get_item(store, id_tarea) = NoItem
                THEN Responder(i, ErrorResp(HTTP_404_NOT_FOUND,
                                            "Tarea no encontrada"))
                ELSE Responder(i, Respuesta(HTTP_200_OK, "",
                                            get_item(store, id_tarea), {}))
           ELSE IF rama(id_tarea, estado) = "estado"
           THEN IF estado[1] \notin Range(ESTADOS_VALIDOS)
                THEN Responder(i, ErrorResp(HTTP_400_BAD_REQUEST,
                                            "Parametro invalido"))
                ELSE \E capacidad \in Paginas :
                     \E leidos \in scan_leidos(store, lim, capacidad) :
                        Responder(i, Respuesta(HTTP_200_OK, "", NoItem,
                                    filtrar_estado(leidos, estado[1])))
           ELSE \E capacidad \in Paginas :
                \E leidos \in scan_leidos(store, lim, capacidad) :
                    Responder(i, Respuesta(HTTP_200_OK, "", NoItem, leidos))
        /\ UNCHANGED <<store, issued, clock, expr>>

(* --------------------------- request inputs ---------------------------- *)
\* The ISO-8601 text of second k: without offset, and with a UTC offset.
Naive(k) == Str(<<Digits[k + 1]>>)

Aware(k) == Str(<<Digits[k + 1], "+">>)

\* {"titulo": "a"}
SoloTitulo == DictBody("titulo" :> Str(<<"a">>))

\* {"titulo": " a ", "descripcion": " b ", "fecha": <second 1>,
\*  "estado": "EN_PROGRESO"}
Completa ==
    DictBody(("titulo" :> Str(<<" ", "a", " ">>))
             @@ ("descripcion" :> Str(<<" ", "b", " ">>))
             @@ ("fecha" :> Naive(1))
             @@ ("estado" :> Word("EN_PROGRESO")))

\* {"estado": "COMPLETADA"}
SoloEstado == DictBody("estado" :> Word("COMPLETADA"))

\* {"titulo": "b", "fecha": <second 0>}
TituloFecha ==
    DictBody(("titulo" :> Str(<<"b">>)) @@ ("fecha" :> Naive(0)))

CuerposCrear == {Completa}

CuerposActualizar == {SoloEstado, TituloFecha}

(* --------------------------- specification ----------------------------- *)
\* The ids a request names: those a creation has returned (SpecV covers
\* the ids never issued, malformed and missing).
Destinos ==
    {id \in issued :
        \E j \in Reqs : /\ req[j].op = "crear"
                        /\ pc[j] = "done"
                        /\ resp[j].status = HTTP_201_CREATED
                        /\ resp[j].tarea["id"] = Str(id)}

\* Up to MaxReqs requests, whose handlers interleave at their store calls.
Next ==
    \/ Tick
    \/ n < MaxReqs /\ \E body \in CuerposCrear : CrearTarea(body)
    \/ \E i \in Reqs : CrearPreparar(i)
    \/ \E i \in Reqs : CrearEscribir(i)
    \/ n < MaxReqs /\ \E id \in Destinos, body \in CuerposActualizar :
                        ActualizarInicio(id, body)
    \/ \E i \in Reqs : ActualizarValidar(i)
    \/ \E i \in Reqs : ActualizarPreparar(i)
    \/ \E i \in Reqs : ActualizarEscribir(i)
    \/ n < MaxReqs /\ \E id \in Destinos : EliminarInicio(id)
    \/ \E i \in Reqs : EliminarEscribir(i)
    \/ n < MaxReqs /\ \E id \in Destinos \cup {MissingId} :
                        ListarTareas(id, <<>>, Ausente)

Spec == Init /\ [][Next]_vars

(* ------------------- specification of single requests ----------------- *)
\* One request, drawn from a wide set of inputs, against a table that holds
\* the task crear_tarea made of {"titulo": "a"} at tick 0.

Claves == {"titulo", "descripcion", "fecha", "estado", "extra"}

TitulosV ==
    {Null, Str(<<>>), Str(<<" ">>), Str(<<"a">>), Str(<<" ", "a", " ">>),
     Str(Rep("a", MaxTitulo)), Str(Rep("a", MaxTitulo + 1)),
     Str(Rep("a", MaxTitulo) \o <<" ">>), Str(<<"\t", "a", "\n">>),
     Str(<<"\t">>), Num(<<"5">>)}

DescripcionesV ==
    {Null, Str(<<>>), Str(<<" ", "b", " ">>), Str(Rep("b", MaxDescripcion)),
     Str(Rep("b", MaxDescripcion + 1)), Num(<<"5">>)}

FechasV ==
    {Null, Str(<<>>), Naive(0), Naive(1), Aware(0), Str(<<"a">>),
     Num(<<"5">>)}

EstadosV ==
    {Word("PENDIENTE"), Word("CANCELADA"), Word("INVALID"), Null,
     Num(<<"5">>)}

\* The JSON object with the keys of r that are not Ausente.
Dict(r) == [k \in {c \in Claves : r[c] # Ausente} |-> r[k]]

CuerposV ==
    {DictBody(Dict(r)) :
        r \in [titulo : TitulosV \cup {Ausente},
               descripcion : DescripcionesV \cup {Ausente},
               fecha : FechasV \cup {Ausente},
               estado : EstadosV \cup {Ausente},
               extra : {Num(<<"5">>), Ausente}]}
        \cup {BadJson, OtherBody}

IdsV == {UuidText(1), UuidText(2), MalformedId, MissingId}

EstadosConsultaV == {<<>>, <<"PENDIENTE">>, <<"INVALID">>}

LimitesV == {Ausente, Str(<<"1">>), Str(<<"0">>), Str(<<"a">>)}

TareaInicial ==
    item_nuevo(UuidText(1), validar_datos_tarea(SoloTitulo, 0).datos, 0)

InitV ==
    /\ store = [id \in IdTexts |->
                    IF id = UuidText(1) THEN TareaInicial ELSE NoItem]
    /\ issued = {UuidText(1)}
    /\ clock = 0
    /\ n = 0
    /\ req = [i \in Reqs |-> NoReq]
    /\ pc = [i \in Reqs |-> "idle"]
    /\ expr = [i \in Reqs |-> <<>>]
    /\ resp = [i \in Reqs |-> NoResp]

NextV ==
    \/ Tick
    \/ n < 1 /\ \E body \in CuerposV : CrearTarea(body)
    \/ \E i \in Reqs : CrearPreparar(i)
    \/ \E i \in Reqs : CrearEscribir(i)
    \/ n < 1 /\ \E body \in CuerposV : ActualizarInicio(UuidText(1), body)
    \/ n < 1 /\ \E id \in IdsV, body \in CuerposActualizar :
                    ActualizarInicio(id, body)
    \/ \E i \in Reqs : ActualizarValidar(i)
    \/ \E i \in Reqs : ActualizarPreparar(i)
    \/ \E i \in Reqs : ActualizarEscribir(i)
    \/ n < 1 /\ \E id \in IdsV : EliminarInicio(id)
    \/ \E i \in Reqs : EliminarEscribir(i)
    \/ n < 1 /\ \E id \in IdsV, estado \in EstadosConsultaV,
                   limite \in LimitesV : ListarTareas(id, estado, limite)

SpecV == InitV /\ [][NextV]_vars

(* -------------------- specification of list requests ------------------ *)
\* One list request against a table of up to MaxTabla tasks, each the task
\* crear_tarea made at tick 0 of {"titulo": "a", "estado": <estado>}.
IdsL == {UuidText(k) : k \in 1..MaxTabla}

EstadosL == {"PENDIENTE", "COMPLETADA"}

TareaL(id, estado) ==
    LET body == DictBody(("titulo" :> Str(<<"a">>))
                         @@ ("estado" :> Word(estado)))
    IN  item_nuevo(id, validar_datos_tarea(body, 0).datos, 0)

TablasL ==
    {[id \in IdsL |-> IF f[id] = "" THEN NoItem ELSE TareaL(id, f[id])] :
        f \in [IdsL -> EstadosL \cup {""}]}

IdsConsultaL == {UuidText(1), UuidText(2), MalformedId, MissingId}

EstadosConsultaL == {<<>>, <<"PENDIENTE">>, <<"COMPLETADA">>, <<"INVALID">>}

LimitesL ==
    {Ausente, Str(<<"1">>), Str(<<"2">>), Str(<<"0">>), Str(<<"a">>),
     Str(<<"1", "0">>), Str(<<" ", "1">>), Str(<<"-", "1">>),
     Str(<<"+", "1">>), Str(<<>>), Str(<<"1", "_", "0">>),
     Str(<<"U+001C", "1">>), Str(<<"1", "U+001F">>),
     Str(<<"U+3000", "1", "\n">>), Null, Num(<<"2">>), Num(<<"0">>),
     Str(<<"U+0663">>)}

\* The numerals at the digit limit of int(): the longest one it reads, and
\* one digit more.
LimitesLargosL ==
    {Str(Rep("0", MaxDigitosInt - 1) \o <<"1">>),
     Str(Rep("0", MaxDigitosInt) \o <<"1">>)}

InitL ==
    /\ store \in TablasL
    /\ issued = {id \in IdsL : store[id] # NoItem}
    /\ clock = 0
    /\ n = 0
    /\ req = [i \in Reqs |-> NoReq]
    /\ pc = [i \in Reqs |-> "idle"]
    /\ expr = [i \in Reqs |-> <<>>]
    /\ resp = [i \in Reqs |-> NoResp]

NextL ==
    \/ Tick
    \/ n < 1 /\ \E id \in IdsConsultaL, estado \in EstadosConsultaL,
                   limite \in LimitesL : ListarTareas(id, estado, limite)
    \/ n < 1 /\ \E id \in {UuidText(1), MissingId},
                   limite \in LimitesLargosL :
                    ListarTareas(id, <<"PENDIENTE">>, limite)

SpecL == InitL /\ [][NextL]_vars

(* ------------------ specification of concurrent updates --------------- *)
\* Two update requests, whose handlers interleave at their store calls,
\* against a table that holds the task crear_tarea made of {"titulo": "a"}
\* at tick 0.
\* {"titulo": "c", "estado": "CANCELADA"}
TituloEstado ==
    DictBody(("titulo" :> Str(<<"c">>)) @@ ("estado" :> Word("CANCELADA")))

CuerposU == {SoloEstado, TituloFecha, TituloEstado}

NextU ==
    \/ Tick
    \/ n < 2 /\ \E body \in CuerposU : ActualizarInicio(UuidText(1), body)
    \/ \E i \in Reqs : ActualizarValidar(i)
    \/ \E i \in Reqs : ActualizarPreparar(i)
    \/ \E i \in Reqs : ActualizarEscribir(i)

SpecU == InitV /\ [][NextU]_vars

(* ------------------------------ properties ---------------------------- *)
CamposTarea == {"id", "titulo", "descripcion", "fecha", "estado",
                "creado_en", "actualizado_en"}

Hecho(i) == pc[i] = "done"

\* Request i arrives in this step.
Llega(i) == n = i - 1 /\ n' = i

\* A write of an update or a delete has reached the table under id.
Escrita(id) ==
    \E m \in Reqs : /\ req[m].op \in {"actualizar", "eliminar"}
                    /\ req[m].id = id
                    /\ Hecho(m)
                    /\ resp[m].status = HTTP_200_OK

\* Request j is a creation that returned the task of this id.
Creo(j, id) ==
    /\ req[j].op = "crear"
    /\ Hecho(j)
    /\ resp[j].status = HTTP_201_CREATED
    /\ resp[j].tarea["id"] = Str(id)

\* C1. Round trip: a get by the id a creation returned, with no update or
\* delete written under that id since, answers 200 with a record equal in
\* all seven fields to the one the creation returned.
C1_RoundTrip ==
    [][\A i \in Reqs, j \in Reqs :
        (/\ Llega(i)
         /\ req'[i].op = "listar"
         /\ Creo(j, req'[i].id)
         /\ ~Escrita(req'[i].id))
        => /\ resp'[i].status = HTTP_200_OK
           /\ DOMAIN resp'[i].tarea = CamposTarea
           /\ \A k \in CamposTarea :
                resp'[i].tarea[k] = resp[j].tarea[k]]_vars

C1_Witness ==
    \E i \in Reqs, j \in Reqs :
        /\ req[i].op = "listar"
        /\ Hecho(i)
        /\ Creo(j, req[i].id)
        /\ resp[i].status = HTTP_200_OK
        /\ resp[i].tarea = resp[j].tarea

\* The recognized fields the payload of request i carries.
Enviados(i) == DOMAIN req[i].body.d \cap campos_permitidos

\* The update_item of request i reaches the table in this step.
Escribe(i) ==
    req[i].op = "actualizar" /\ pc[i] = "prepared" /\ pc'[i] = "done"

\* C2. Partial-update isolation: when the write of an update reaches a task
\* that exists, the update answers 200, the fields of the task other than
\* the recognized fields of the payload and actualizado_en keep their
\* values (id and creado_en among them), no field appears or disappears
\* beyond those, every other record is unchanged, and the response carries
\* the whole record as it is after the write.
C2_PartialUpdateIsolation ==
    [][\A i \in Reqs :
        (Escribe(i) /\ store[req[i].id] # NoItem)
        => LET id == req[i].id
               tocados == Enviados(i) \cup {"actualizado_en"}
           IN  /\ resp'[i].status = HTTP_200_OK
               /\ DOMAIN store'[id] = DOMAIN store[id] \cup tocados
               /\ \A k \in DOMAIN store[id] \ tocados :
                    store'[id][k] = store[id][k]
               /\ "estado" \in Enviados(i)
                    => store'[id]["estado"] = req[i].body.d["estado"]
               /\ \A otro \in DOMAIN store \ {id} :
                    store'[otro] = store[otro]
               /\ resp'[i].tarea = store'[id]]_vars

C2_Witness ==
    \E i \in Reqs :
        /\ req[i].op = "actualizar"
        /\ req[i].body = SoloEstado
        /\ Hecho(i)
        /\ resp[i].status = HTTP_200_OK
        /\ DOMAIN resp[i].tarea = CamposTarea
        /\ resp[i].tarea["estado"] = Word("COMPLETADA")
        /\ resp[i].tarea["titulo"] = Str(<<"a">>)
        /\ resp[i].tarea["actualizado_en"] # resp[i].tarea["creado_en"]
        /\ \E otro \in DOMAIN store \ {req[i].id} : store[otro] # NoItem

\* C3. Every record of the table has all seven fields, under every
\* interleaving of create, update and delete requests.
C3_RecordsComplete ==
    \A id \in DOMAIN store :
        store[id] # NoItem => DOMAIN store[id] = CamposTarea

EstadosValidos == {Word(e) : e \in Range(ESTADOS_VALIDOS)}

\* The table of InitV.
TablaInicial ==
    [id \in IdTexts |-> IF id = UuidText(1) THEN TareaInicial ELSE NoItem]

\* Request i went past the id checks and the existence check.
LlegoAValidar(i) ==
    resp[i].error \notin {"Parametro faltante", "Parametro invalido",
                          "Tarea no encontrada"}

\* Request i is a creation or an update that wrote titulo and succeeded.
EscribioTitulo(i) ==
    /\ Hecho(i)
    /\ \/ req[i].op = "crear" /\ resp[i].status = HTTP_201_CREATED
       \/ /\ req[i].op = "actualizar"
          /\ resp[i].status = HTTP_200_OK
          /\ "titulo" \in DOMAIN req[i].body.d

\* C4. After a successful create, and after a successful update whose
\* payload has titulo, the stored titulo has 1 to 100 characters and no
\* leading or trailing whitespace; a creation of {"titulo": t} is accepted
\* exactly when t is a text of 1 to 100 characters after trimming.
C4_TituloTrimmedNonEmpty ==
    \A i \in Reqs :
        /\ EscribioTitulo(i)
            => LET t == resp[i].tarea["titulo"].s
               IN  Len(t) >= 1 /\ Len(t) <= MaxTitulo /\ strip(t) = t
        /\ \A t \in TitulosV :
            (Hecho(i) /\ req[i].op = "crear"
                /\ req[i].body = DictBody("titulo" :> t))
            => IF IsStr(t) /\ Len(strip(t.s)) >= 1
                  /\ Len(strip(t.s)) <= MaxTitulo
               THEN resp[i].status = HTTP_201_CREATED
               ELSE resp[i].status = HTTP_400_BAD_REQUEST

\* Request i is a create or an update whose payload has an estado outside
\* the four values, and it reached validation.
EstadoFueraDeEnum(i) ==
    /\ Hecho(i)
    /\ req[i].op \in {"crear", "actualizar"}
    /\ LlegoAValidar(i)
    /\ req[i].body.kind = "dict"
    /\ "estado" \in DOMAIN req[i].body.d
    /\ req[i].body.d["estado"] \notin EstadosValidos

\* C5. Enum enforcement: a create or update whose payload has an estado
\* outside the four values is answered 400 and leaves the table as it was;
\* no record of the table has an estado outside the four values.
C5_EnumEnforcement ==
    /\ \A i \in Reqs :
        EstadoFueraDeEnum(i)
            => resp[i].status = HTTP_400_BAD_REQUEST /\ store = TablaInicial
    /\ \A id \in DOMAIN store :
        (store[id] # NoItem /\ "estado" \in DOMAIN store[id])
            => store[id]["estado"] \in EstadosValidos

\* The fecha values that parse as ISO-8601.
FechasLegibles ==
    {f \in FechasV : Truthy(f) /\ fromisoformat(f).exc = "none"}

\* C6. Date asymmetry: for every parseable fecha f, creating
\* {"titulo": "a", "fecha": f} is rejected as a validation failure, with
\* nothing written, when f is earlier than the current time and succeeds
\* storing f otherwise, whereas updating an existing task with
\* {"fecha": f} passes validation and stores f in both cases.
C6_DateAsymmetry ==
    [][\A i \in Reqs, f \in FechasLegibles :
        /\ (/\ Llega(i)
            /\ req'[i].op = "crear"
            /\ req'[i].body =
                DictBody(("titulo" :> Str(<<"a">>)) @@ ("fecha" :> f)))
           => IF fromisoformat(f).at < utcnow(clock)
              THEN /\ resp'[i] = ErrorResp(HTTP_400_BAD_REQUEST,
                                           "Datos invalidos")
                   /\ store' = store
              ELSE pc'[i] = "validated" /\ expr'[i]["fecha"] = f
        /\ (/\ req[i].op = "crear"
            /\ req[i].body =
                DictBody(("titulo" :> Str(<<"a">>)) @@ ("fecha" :> f))
            /\ pc[i] = "validated"
            /\ pc'[i] # "validated")
           => pc'[i] = "prepared" /\ expr'[i]["fecha"] = f
        /\ (/\ req[i].op = "crear"
            /\ req[i].body =
                DictBody(("titulo" :> Str(<<"a">>)) @@ ("fecha" :> f))
            /\ pc[i] = "prepared"
            /\ pc'[i] # "prepared")
           => /\ resp'[i].status = HTTP_201_CREATED
              /\ resp'[i].tarea["fecha"] = f
              /\ store'[resp'[i].tarea["id"].s] = resp'[i].tarea
        /\ (/\ req[i].op = "actualizar"
            /\ req[i].body = DictBody("fecha" :> f)
            /\ pc[i] = "checked"
            /\ pc'[i] # "checked")
           => pc'[i] = "validated" /\ expr'[i]["fecha"] = f
        /\ (/\ req[i].op = "actualizar"
            /\ req[i].body = DictBody("fecha" :> f)
            /\ pc[i] = "validated"
            /\ pc'[i] # "validated")
           => pc'[i] = "prepared" /\ expr'[i]["fecha"] = f
        /\ (Escribe(i) /\ req[i].body = DictBody("fecha" :> f))
           => /\ resp'[i].status = HTTP_200_OK
              /\ store'[req[i].id]["fecha"] = f]_vars

\* The payload of request i has a fecha that is present and non-empty and
\* yields no usable timestamp: no text, unparseable, or (at creation, which
\* compares it with the current time) not comparable with it.
FechaInservible(i) ==
    /\ req[i].body.kind = "dict"
    /\ "fecha" \in DOMAIN req[i].body.d
    /\ LET f == req[i].body.d["fecha"]
       IN  /\ Truthy(f)
           /\ \/ fromisoformat(f).exc # "none"
              \/ req[i].op = "crear" /\ fromisoformat(f).aware

\* C7. No create or update is answered 500 (the table is healthy), and one
\* whose fecha yields no usable timestamp is answered 400.
C7_FieldViolationIs400 ==
    \A i \in Reqs :
        (Hecho(i) /\ req[i].op \in {"crear", "actualizar"})
        => /\ resp[i].status # HTTP_500_SERVER_ERROR
           /\ (FechaInservible(i) /\ LlegoAValidar(i))
                => resp[i].status = HTTP_400_BAD_REQUEST

\* The per-field rules of update, stated on the payload: titulo a
\* non-empty text of at most 100 characters, descripcion null or a text of
\* at most 500, fecha an empty or a parseable text, estado one of the four.
CamposValidos(d) ==
    /\ "titulo" \in DOMAIN d
        => /\ IsStr(d["titulo"])
           /\ Len(d["titulo"].s) >= 1
           /\ Len(d["titulo"].s) <= MaxTitulo
    /\ "descripcion" \in DOMAIN d
        => \/ d["descripcion"] = Null
           \/ /\ IsStr(d["descripcion"])
              /\ Len(d["descripcion"].s) <= MaxDescripcion
    /\ "fecha" \in DOMAIN d
        => /\ IsStr(d["fecha"])
           /\ d["fecha"].s = <<>> \/ d["fecha"] \in FechasLegibles
    /\ "estado" \in DOMAIN d => d["estado"] \in EstadosValidos

\* Validation of the update i has run and accepted the payload.
Aceptada(i) ==
    \/ pc[i] \in {"validated", "prepared"}
    \/ Hecho(i) /\ resp[i].status = HTTP_200_OK

\* Validation of the update i has run and rejected the payload.
Rechazada(i) ==
    /\ Hecho(i)
    /\ resp[i] = ErrorResp(HTTP_400_BAD_REQUEST, "Datos invalidos")

\* C8. Update validation: a payload that is no object, or has none of
\* titulo, descripcion, fecha, estado, is rejected; a payload with at
\* least one of them, all valid, is accepted; and whenever a payload is
\* accepted, the fields handed to the store are exactly the recognized keys
\* of the payload (plus actualizado_en), so that no unrecognized key and no
\* absent field is written.
C8_UpdateSparseFieldSet ==
    \A i \in Reqs :
        (/\ req[i].op = "actualizar"
         /\ pc[i] \in {"validated", "prepared", "done"}
         /\ LlegoAValidar(i)
         /\ req[i].body.kind # "badjson")
        => /\ (req[i].body.kind # "dict" \/ Enviados(i) = {})
                => Rechazada(i)
           /\ (/\ req[i].body.kind = "dict"
               /\ Enviados(i) # {}
               /\ CamposValidos(req[i].body.d))
                => Aceptada(i)
           /\ Aceptada(i)
                => DOMAIN expr[i] =
                    IF pc[i] = "validated" THEN Enviados(i)
                    ELSE Enviados(i) \cup {"actualizado_en"}
           /\ (Hecho(i) /\ resp[i].status = HTTP_200_OK)
                => DOMAIN resp[i].tarea =
                        DOMAIN TareaInicial \cup Enviados(i)

C8_Witness ==
    \E i \in Reqs :
        /\ req[i].op = "actualizar"
        /\ Hecho(i)
        /\ resp[i].status = HTTP_200_OK
        /\ DOMAIN req[i].body.d = {"descripcion", "estado", "extra"}
        /\ DOMAIN expr[i] = {"descripcion", "estado", "actualizado_en"}
        /\ "extra" \notin DOMAIN store[req[i].id]
        /\ store[req[i].id]["titulo"] = TareaInicial["titulo"]

\* C9. A delete of a well-formed id under which the table holds nothing is
\* answered 404 at once: the handler issues no delete_item (it is done and
\* takes no further step) and the table is unchanged.
C9_DeleteMissingIs404 ==
    [][\A i \in Reqs :
        (/\ Llega(i)
         /\ req'[i].op = "eliminar"
         /\ es_uuid_valido(req'[i].id)
         /\ store[req'[i].id] = NoItem)
        => /\ pc'[i] = "done"
           /\ resp'[i] = ErrorResp(HTTP_404_NOT_FOUND, "Tarea no encontrada")
           /\ store' = store]_vars

C9_Witness ==
    \E i \in Reqs, j \in Reqs :
        /\ j < i
        /\ req[j].op = "eliminar" /\ req[i].op = "eliminar"
        /\ req[j].id = req[i].id
        /\ Hecho(j) /\ resp[j].status = HTTP_200_OK
        /\ Hecho(i) /\ resp[i].status = HTTP_404_NOT_FOUND
        /\ \E otro \in DOMAIN store : store[otro] # NoItem

\* A delete of this id has been answered 200.
Eliminada(id) ==
    \E m \in Reqs : /\ req[m].op = "eliminar"
                    /\ req[m].id = id
                    /\ Hecho(m)
                    /\ resp[m].status = HTTP_200_OK

\* C10. Once a delete of an id has been answered 200 the record is gone
\* (ids are never issued twice, so no creation brings it back): a get by
\* that id is answered 404, no listing carries a record of that id, and
\* the delete_item itself leaves every other record as it was.
C10_DeletedStaysDeleted ==
    [][\A i \in Reqs :
        /\ (Llega(i) /\ req'[i].op = "listar" /\ Eliminada(req'[i].id))
            => resp'[i].status = HTTP_404_NOT_FOUND
        /\ (Llega(i) /\ req'[i].op = "listar" /\ req'[i].id = MissingId)
            => \A t \in resp'[i].tareas : ~Eliminada(t["id"].s)
        /\ (req[i].op = "eliminar" /\ pc[i] = "checked" /\ pc'[i] = "done")
            => /\ store'[req[i].id] = NoItem
               /\ \A otro \in DOMAIN store \ {req[i].id} :
                    store'[otro] = store[otro]]_vars


(* ------------------------------- listing ------------------------------- *)
\* The number a limite names: 0 where it names none.
Numero(v) == IF int(v).exc = "none" THEN int(v).datos ELSE 0

\* The text writes a positive integer as int() reads texts: between
\* whitespace other than U+001C to U+001F, an optional "+", then decimal
\* digits of any script, not all zero and no more than MaxDigitosInt, with
\* single underscores allowed between two digits.
TextoEnteroPositivo(s) ==
    LET escritos == {k \in 1..Len(s) : s[k] \notin EspaciosDeInt}
        desde == SetMin(escritos)
        hasta == desde + Cardinality(escritos) - 1
        inicio == IF s[desde] = "+" THEN desde + 1 ELSE desde
        cifras == {k \in inicio..hasta : s[k] \in DigitosDecimales}
    IN  /\ escritos # {}
        /\ escritos = desde..hasta
        /\ {inicio, hasta} \subseteq cifras
        /\ \A k \in inicio..hasta :
                k \in cifras \/ (s[k] = "_" /\ k - 1 \in cifras)
        /\ Cardinality(cifras) <= MaxDigitosInt
        /\ \E k \in cifras : ValoresDeDigitos[s[k]] # 0

\* The limite is a positive integer: a text that writes one, or a number.
EnteroPositivo(v) ==
    \/ v.t = "str" /\ TextoEnteroPositivo(v.s)
    \/ v.t = "num" /\ \E k \in 1..Len(v.s) : v.s[k] # "0"

\* The limite of request i is absent or a positive integer.
LimiteValido(i) == req[i].limite = Ausente \/ EnteroPositivo(req[i].limite)

\* The limite of request i is neither a text nor a number.
LimiteSinTipo(i) == req[i].limite.t \in {"null", "list"}

\* The list request i asked for neither an id nor an estado and was answered.
ListoTodas(i) ==
    /\ Hecho(i)
    /\ req[i].op = "listar"
    /\ req[i].id = MissingId
    /\ req[i].estado = <<>>
    /\ resp[i].status = HTTP_200_OK

\* C11: a list request without id, estado and limite returns every record of
\* the table (its tareas are the table's items, so total is their number),
\* whatever the table's size and the page of the scan; with limite L it
\* returns at most L records.  (No request writes the table in SpecL.)
C11_ListAllComplete ==
    \A i \in Reqs :
        ListoTodas(i) =>
            IF req[i].limite = Ausente
            THEN resp[i].tareas = Items(store)
            ELSE /\ resp[i].tareas \subseteq Items(store)
                 /\ Cardinality(resp[i].tareas) <= Numero(req[i].limite)

\* The list request i asked for an estado and no id, and was answered.
ListoPorEstado(i) ==
    /\ Hecho(i)
    /\ req[i].op = "listar"
    /\ req[i].id = MissingId
    /\ req[i].estado # <<>>
    /\ LimiteValido(i)

\* The items of the table whose estado is the given one.
ConEstado(tabla, estado) ==
    {t \in Items(tabla) : "estado" \in DOMAIN t /\ t["estado"] = Word(estado)}

Min(a, b) == IF a <= b THEN a ELSE b

\* C12: a list request by estado is answered 400 when the estado is none of
\* the four values; otherwise 200 with records of the table that all have
\* that estado: all M of them without limite, min(L, M) of them with limite
\* L.  Stated of tables that fit in one page of a scan.
C12_ListByStatus ==
    \A i \in Reqs :
        ListoPorEstado(i) /\ Cardinality(Items(store)) <= PaginaMax =>
            LET estado == req[i].estado[1]
                M == Cardinality(ConEstado(store, estado))
            IN  IF estado \notin Range(ESTADOS_VALIDOS)
                THEN resp[i].status = HTTP_400_BAD_REQUEST
                ELSE /\ resp[i].status = HTTP_200_OK
                     /\ resp[i].tareas \subseteq ConEstado(store, estado)
                     /\ Cardinality(resp[i].tareas) =
                            IF req[i].limite = Ausente THEN M
                            ELSE Min(Numero(req[i].limite), M)

\* What the lookup of one id answers: 400 for a malformed id, 404 where the
\* table holds nothing under it, 200 with the task otherwise.
Busqueda(tabla, id) ==
    IF ~(Len(id) = 2 /\ id[1] = "u" /\ id[2] \in Range(Digits))
    THEN ErrorResp(HTTP_400_BAD_REQUEST, "Parametro invalido")
    ELSE IF id \notin DOMAIN tabla \/ tabla[id] = NoItem
    THEN ErrorResp(HTTP_404_NOT_FOUND, "Tarea no encontrada")
    ELSE Respuesta(HTTP_200_OK, "", tabla[id], {})

\* The list request i was answered.
Listo(i) == Hecho(i) /\ req[i].op = "listar"


\* The answer to a list request without id: by estado when one is given
\* (400 outside the enum, else records of that estado), unfiltered otherwise.
SinId(i) ==
    IF req[i].estado # <<>>
    THEN IF req[i].estado[1] \notin Range(ESTADOS_VALIDOS)
         THEN resp[i].status = HTTP_400_BAD_REQUEST
         ELSE /\ resp[i].status = HTTP_200_OK
              /\ resp[i].tareas \subseteq ConEstado(store, req[i].estado[1])
    ELSE /\ resp[i].status = HTTP_200_OK
         /\ resp[i].tareas \subseteq Items(store)
         /\ \/ req[i].limite # Ausente
            \/ Cardinality(Items(store)) > PaginaMax
            \/ resp[i].tareas = Items(store)

\* C13 as stated: a list request with an id is answered with the lookup of
\* that id (200 with the task, 404, or 400 for a malformed id) whatever its
\* estado is; estado is validated and applied only without id, and the
\* listing is unfiltered only without both.
C13_IdOverEstado ==
    \A i \in Reqs :
        Listo(i) =>
            IF req[i].id # MissingId
            THEN resp[i] = Busqueda(store, req[i].id)
            ELSE LimiteValido(i) => SinId(i)

\* C13 amended: the same of the list requests whose limite is absent or a
\* positive integer; any other limite is answered before id and estado are
\* looked at, 500 when it is neither a text nor a number and 400 otherwise.
C13_IdOverEstadoValidLimit ==
    \A i \in Reqs :
        Listo(i) =>
            IF LimiteSinTipo(i)
            THEN resp[i] = ErrorResp(HTTP_500_SERVER_ERROR,
                                     "Error interno del servidor")
            ELSE IF ~LimiteValido(i)
            THEN resp[i] = ErrorResp(HTTP_400_BAD_REQUEST,
                                     "Parametro invalido")
            ELSE IF req[i].id # MissingId
            THEN resp[i] = Busqueda(store, req[i].id)
            ELSE SinId(i)

\* A request with the id of a stored task and an estado outside the enum was
\* answered 200 with that task.
C13_Witness ==
    \E i \in Reqs :
        /\ Listo(i)
        /\ req[i].id \in DOMAIN store
        /\ store[req[i].id] # NoItem
        /\ req[i].estado = <<"INVALID">>
        /\ resp[i] = Respuesta(HTTP_200_OK, "", store[req[i].id], {})

(* ------------------------------ timestamps ----------------------------- *)
\* The second an ISO-8601 text written by ahora_iso8601 names.
Segundo(v) == DigitValue(v.s[1])

\* The ids under which the table holds a record.
Presentes(tabla) == {id \in DOMAIN tabla : tabla[id] # NoItem}

\* The record carries both timestamps, actualizado_en not before creado_en.
TiemposEnOrden(t) ==
    /\ {"creado_en", "actualizado_en"} \subseteq DOMAIN t
    /\ Segundo(t["actualizado_en"]) >= Segundo(t["creado_en"])

\* C14: under any sequence of create, update and delete requests, every
\* record of the table has actualizado_en >= creado_en, and no step changes
\* the id or the creado_en of a record that stays in the table.
C14_TimestampsOrdered ==
    [][/\ \A id \in Presentes(store') : TiemposEnOrden(store'[id])
       /\ \A id \in Presentes(store) \cap Presentes(store') :
            /\ Get(store'[id], "id") = Get(store[id], "id")
            /\ Get(store'[id], "creado_en") = Get(store[id], "creado_en")]_vars

\* No request to delete the task of this id has been received.
SinEliminar(id) ==
    \A m \in Reqs : ~(req[m].op = "eliminar" /\ req[m].id = id)

\* The write of update i with {"estado": "COMPLETADA"} reaches, in this
\* step, the task that creation j returned and nobody asked to delete.
CompletaRecienCreada(i, j) ==
    /\ Escribe(i)
    /\ req[i].body = SoloEstado
    /\ Creo(j, req[i].id)
    /\ SinEliminar(req[i].id)

\* C15 as stated: the update of a created task with {"estado":
\* "COMPLETADA"} answers 200 with a record whose estado is COMPLETADA, whose
\* titulo is the one the task had, and whose actualizado_en is strictly
\* later than its creado_en, whenever the two requests ran.
C15_UpdateAdvancesTimestamp ==
    [][\A i \in Reqs, j \in Reqs :
        CompletaRecienCreada(i, j)
        => LET tarea == resp'[i].tarea
           IN  /\ resp'[i].status = HTTP_200_OK
               /\ tarea["estado"] = Word("COMPLETADA")
               /\ tarea["titulo"] = store[req[i].id]["titulo"]
               /\ Segundo(tarea["actualizado_en"])
                    > Segundo(tarea["creado_en"])]_vars

\* C15 amended: the same with actualizado_en not earlier than creado_en;
\* the two are equal when both requests read the clock within one second.
C15_UpdateKeepsTimestampOrder ==
    [][\A i \in Reqs, j \in Reqs :
        CompletaRecienCreada(i, j)
        => LET tarea == resp'[i].tarea
           IN  /\ resp'[i].status = HTTP_200_OK
               /\ tarea["estado"] = Word("COMPLETADA")
               /\ tarea["titulo"] = store[req[i].id]["titulo"]
               /\ tarea["creado_en"] = resp[j].tarea["creado_en"]
               /\ tarea["actualizado_en"] = expr[i]["actualizado_en"]
               /\ Segundo(tarea["actualizado_en"])
                    >= Segundo(tarea["creado_en"])]_vars

\* A created task was completed within the second of its creation.
C15_Witness ==
    \E i \in Reqs, j \in Reqs :
        /\ req[i].op = "actualizar"
        /\ req[i].body = SoloEstado
        /\ Hecho(i)
        /\ Creo(j, req[i].id)
        /\ resp[i].status = HTTP_200_OK
        /\ DOMAIN resp[i].tarea = CamposTarea
        /\ resp[i].tarea["estado"] = Word("COMPLETADA")
        /\ resp[i].tarea["titulo"] = resp[j].tarea["titulo"]
        /\ resp[i].tarea["actualizado_en"] = resp[i].tarea["creado_en"]

(* -------------------------- concurrent updates ------------------------- *)
\* Update a has written the task that update b writes in this step.
EscribeTras(b, a) ==
    /\ a # b
    /\ Escribe(b)
    /\ req[a].op = "actualizar"
    /\ req[a].id = req[b].id
    /\ Hecho(a)
    /\ resp[a].status = HTTP_200_OK

\* The record with the values of primero applied, then those of segundo.
Aplicados(inicial, primero, segundo) ==
    [k \in DOMAIN inicial \cup DOMAIN primero \cup DOMAIN segundo |->
        IF k \in DOMAIN segundo THEN segundo[k]
        ELSE IF k \in DOMAIN primero THEN primero[k]
        ELSE inicial[k]]

\* C16: of two concurrent updates of the same existing task, both answer
\* 200 and the record after the second write is the initial record with the
\* validated fields of the first writer applied and then those of the
\* second: a field both carry has the second writer's value, a field only
\* one carries has that one's value.
C16_LastWriterWins ==
    [][\A a \in Reqs, b \in Reqs :
        /\ (pc'[a] = "done" => resp'[a].status = HTTP_200_OK)
        /\ (EscribeTras(b, a) =>
             LET id == req[b].id
             IN  /\ resp'[b].status = HTTP_200_OK
                 /\ store'[id] = Aplicados(TareaInicial, expr[a], expr[b])
                 /\ resp'[b].tarea = store'[id]
                 /\ \A k \in Enviados(a) \ Enviados(b) :
                      store'[id][k] = req[a].body.d[k]
                 /\ \A k \in Enviados(b) :
                      store'[id][k] = req[b].body.d[k])]_vars

\* {"titulo": "b", "fecha": ...} was written first and {"titulo": "c",
\* "estado": "CANCELADA"} second: titulo is the second's, fecha the first's.
C16_Witness ==
    \E a \in Reqs, b \in Reqs :
        /\ req[a].body = TituloFecha /\ req[b].body = TituloEstado
        /\ Hecho(a) /\ Hecho(b)
        /\ resp[a].status = HTTP_200_OK /\ resp[b].status = HTTP_200_OK
        /\ resp[a].tarea["titulo"] = Str(<<"b">>)
        /\ store[UuidText(1)]["titulo"] = Str(<<"c">>)
        /\ store[UuidText(1)]["fecha"] = resp[a].tarea["fecha"]
        /\ store[UuidText(1)]["fecha"] # TareaInicial["fecha"]
        /\ store[UuidText(1)]["estado"] = Word("CANCELADA")

\* C17: the actualizado_en of a stored task never decreases, under every
\* interleaving of concurrent updates of that task with a clock that never
\* runs backwards.
C17_UpdatedAtMonotonic ==
    [][\A id \in Presentes(store) \cap Presentes(store') :
        Segundo(store'[id]["actualizado_en"])
            >= Segundo(store[id]["actualizado_en"])]_vars

=============================================================================
